---------------------------- MODULE Spec2Model ----------------------------
(***************************************************************************)
(* A model of graphics.py (the Canvas wrapper around tkinter.Canvas) and   *)
(* of the two animation scripts sunset.py and extension.py.                *)
(*                                                                         *)
(* The module holds several state machines over one set of variables:      *)
(*   Spec        the Canvas event machinery: callback registration, the    *)
(*               two event queues, their drains, and wait_for_click        *)
(*   FairSpec    Spec with the fairness of wait_for_click's polling loop   *)
(*   SunSpec     main() of sunset.py and of extension.py, statement by     *)
(*               statement                                                 *)
(*   FairSunSpec SunSpec with the script running on                        *)
(*   ColorSpec   the recolouring of the loop body applied to a sun at any  *)
(*               height and displaced either way                           *)
(*   ShapeSpec   set_fill_color and set_outline_color applied to items of  *)
(*               each type                                                 *)
(*   MoveSpec    the canvas.move calls of the loops, on doubles            *)
(*   MoveToSpec  move_to and moveto applied to items of each type, on      *)
(*               doubles                                                   *)
(*   ImageSpec   create_image_with_size, create_oval and delete            *)
(* Each machine leaves the variables it does not use at their initial      *)
(* value.                                                                  *)
(*                                                                         *)
(* Coordinates are fixed-point numbers in tenths of a pixel (Px), which    *)
(* represents every coordinate and displacement of the scripts (0.8, 0.1,  *)
(* -0.5) exactly.  tkinter holds them as doubles: there the 375 additions  *)
(* of 0.8 in extension.py end at 300.0000000000021 instead of 300, which   *)
(* changes neither the number of frames nor any colour.                    *)
(* MoveSpec and MoveToSpec hold coordinates as IEEE-754 doubles (Double),  *)
(* added and subtracted with round-to-nearest-even on 53 bits.             *)
(***************************************************************************)
EXTENDS Integers, Sequences, FiniteSets

---------------------------------------------------------------------------
(* Bounds of the model (not program constants).                            *)

\* input events (press, release, key) the toolkit delivers in one run
MaxEvents == 3
\* wait_for_click calls that may be in progress at once (a callback run by
\* the polling loop's update() may itself call wait_for_click)
MaxDepth == 2

---------------------------------------------------------------------------
(* Values.                                                                 *)

\* Python's None for an unregistered callback
None == "None"
\* the client functions that may be registered as callbacks
Callbacks == {"f", "g"}

VARIABLES
  \* ---- Canvas.__init__, graphics.py:58-75
  on_mouse_pressed,              \* registered press callback or None
  on_mouse_released,             \* registered release callback or None
  on_key_pressed,                \* registered key callback or None
  mouse_presses,                 \* presses not handled by a callback
  key_presses,                   \* key presses not handled by a callback
  wait_for_click_click_happened,
  currently_waiting_for_click,
  \* ---- control position
  wait_stack,                    \* one frame per wait_for_click call in progress
  \* ---- history of what the handlers did (observation only)
  delivered,                     \* per input event, in arrival order: what became of it
  invoked,                       \* the callback the latest input event was passed to, or None
  mouse_returned,                \* all results of get_new_mouse_clicks, concatenated
  key_returned,                  \* all results of get_new_key_presses, concatenated
  last_drain,                    \* the drain called last, and how many times in a row (up
                                 \* to 2) with no input event and no other drain between
  release_pending,               \* a release reached a waiting canvas since the last
                                 \* wait_for_click began or returned
  registered,                    \* per event kind, the argument of the latest set_on_* call
                                 \* (None: no call yet)
  moves,                         \* per call of move of the scripts, how many times it was
                                 \* made (counted in MoveSpec)
  \* ---- the tkinter canvas under the wrapper
  items,                         \* the canvas items by handle (numbered from 1 as created)
  background,                    \* the canvas background colour
  raised,                        \* the latest call of a colour setter and the error it raised
  \* ---- main() of the script that runs
  script,                        \* "sunset", "extension", or "none": no script, the Canvas alone
  pc,                            \* the statement main() is at
  y0,                            \* main()'s local variable y0
  stdout,                        \* the lines printed
  \* ---- history of the animation (observation only)
  frames,                        \* iterations of the animation loop begun
  prev_fill,                     \* the sun's fill before the latest recolouring (None: none yet)
  \* ---- Canvas.__init__, graphics.py:85
  _image_gb_protection           \* the images kept from garbage collection, by handle

canvasVars == <<on_mouse_pressed, on_mouse_released, on_key_pressed,
                mouse_presses, key_presses,
                wait_for_click_click_happened, currently_waiting_for_click>>
waitVars == <<wait_stack, release_pending>>
historyVars == <<delivered, invoked, mouse_returned, key_returned, last_drain, registered,
                 moves>>

sceneVars == <<items, background, raised, script, pc, y0, stdout, frames, prev_fill,
               _image_gb_protection>>

vars == <<canvasVars, waitVars, historyVars, sceneVars>>

---------------------------------------------------------------------------
(* Canvas.__init__                                                         *)

\* the calls of move in the loops of the two scripts, each named by the
\* variable or tag it moves: cir (sunset.py), sun, cloud1, cloud2, wave
\* (extension.py)
MoveCalls == {"cir", "sun", "cloud1", "cloud2", "wave"}

\* no call of move has been made
NoMoves == [c \in MoveCalls |-> 0]

\* no drain has been called since the last input event
NoDrain == [call |-> "none", times |-> 0]

CanvasInit ==
  /\ on_mouse_pressed = None
  /\ on_mouse_released = None
  /\ on_key_pressed = None
  /\ mouse_presses = <<>>
  /\ key_presses = <<>>
  /\ wait_for_click_click_happened = FALSE
  /\ currently_waiting_for_click = FALSE
  /\ wait_stack = <<>>
  /\ release_pending = FALSE
  /\ delivered = <<>>
  /\ mouse_returned = <<>>
  /\ key_returned = <<>>
  /\ invoked = None
  /\ last_drain = NoDrain
  /\ registered = [press |-> None, release |-> None, key |-> None]
  /\ moves = NoMoves

\* number of wait_for_click calls that have started and not returned
waitDepth == Len(wait_stack)

\* the identity of the next input event: events are numbered in arrival order
NextEvent == Len(delivered) + 1

\* the record kept of an input event: its kind and what the handler did
\* with it ("queued", "callback", "wait": it set the flag wait_for_click
\* polls, "none": nothing)
Event(kind, fate) == [kind |-> kind, fate |-> fate]

Min(a, b) == IF a < b THEN a ELSE b

\* an input event arrived and was handled: cb is the callback it was
\* passed to (None: no callback was called)
NoteEvent(kind, fate, cb) ==
  /\ delivered' = Append(delivered, Event(kind, fate))
  /\ invoked' = cb
  /\ last_drain' = NoDrain
  /\ UNCHANGED <<mouse_returned, key_returned, registered, moves>>

\* a drain was called: count it if it repeats the previous call
NoteDrain(call) ==
  /\ last_drain' = IF last_drain.call = call
                     THEN [call |-> call, times |-> Min(last_drain.times + 1, 2)]
                     ELSE [call |-> call, times |-> 1]
  /\ UNCHANGED <<registered, moves>>

---------------------------------------------------------------------------
(* Registration of callbacks.                                              *)

\* set_on_mouse_pressed that keeps a callback already registered
set_on_mouse_pressed_keeps_first(callback) ==
  /\ on_mouse_pressed' = IF on_mouse_pressed = None THEN callback ELSE on_mouse_pressed
  /\ UNCHANGED <<on_mouse_released, on_key_pressed, mouse_presses, key_presses,
                 wait_for_click_click_happened, currently_waiting_for_click>>
  /\ registered' = [registered EXCEPT !.press = callback]
  /\ UNCHANGED <<waitVars, delivered, invoked, mouse_returned, key_returned, last_drain, moves>>
  /\ UNCHANGED sceneVars

set_on_mouse_pressed(callback) ==
  /\ on_mouse_pressed' = callback
  /\ UNCHANGED <<on_mouse_released, on_key_pressed, mouse_presses, key_presses,
                 wait_for_click_click_happened, currently_waiting_for_click>>
  /\ registered' = [registered EXCEPT !.press = callback]
  /\ UNCHANGED <<waitVars, delivered, invoked, mouse_returned, key_returned, last_drain, moves>>
  /\ UNCHANGED sceneVars

set_on_mouse_released(callback) ==
  /\ on_mouse_released' = callback
  /\ UNCHANGED <<on_mouse_pressed, on_key_pressed, mouse_presses, key_presses,
                 wait_for_click_click_happened, currently_waiting_for_click>>
  /\ registered' = [registered EXCEPT !.release = callback]
  /\ UNCHANGED <<waitVars, delivered, invoked, mouse_returned, key_returned, last_drain, moves>>
  /\ UNCHANGED sceneVars

set_on_key_pressed(callback) ==
  /\ on_key_pressed' = callback
  /\ UNCHANGED <<on_mouse_pressed, on_mouse_released, mouse_presses, key_presses,
                 wait_for_click_click_happened, currently_waiting_for_click>>
  /\ registered' = [registered EXCEPT !.key = callback]
  /\ UNCHANGED <<waitVars, delivered, invoked, mouse_returned, key_returned, last_drain, moves>>
  /\ UNCHANGED sceneVars

---------------------------------------------------------------------------
(* The drains.                                                             *)

\* get_new_mouse_clicks without line 186: the queue is not reset
get_new_mouse_clicks_keeps_queue ==
  LET presses == mouse_presses IN
  /\ mouse_presses' = mouse_presses
  /\ mouse_returned' = mouse_returned \o presses
  /\ NoteDrain("get_new_mouse_clicks")
  /\ UNCHANGED <<on_mouse_pressed, on_mouse_released, on_key_pressed, key_presses,
                 wait_for_click_click_happened, currently_waiting_for_click>>
  /\ UNCHANGED <<waitVars, delivered, invoked, key_returned>>
  /\ UNCHANGED sceneVars

get_new_mouse_clicks ==
  LET presses == mouse_presses IN
  /\ mouse_presses' = <<>>
  /\ mouse_returned' = mouse_returned \o presses
  /\ NoteDrain("get_new_mouse_clicks")
  /\ UNCHANGED <<on_mouse_pressed, on_mouse_released, on_key_pressed, key_presses,
                 wait_for_click_click_happened, currently_waiting_for_click>>
  /\ UNCHANGED <<waitVars, delivered, invoked, key_returned>>
  /\ UNCHANGED sceneVars

\* get_new_key_presses without line 200: the queue is not reset
get_new_key_presses_keeps_queue ==
  LET presses == key_presses IN
  /\ key_presses' = key_presses
  /\ key_returned' = key_returned \o presses
  /\ NoteDrain("get_new_key_presses")
  /\ UNCHANGED <<on_mouse_pressed, on_mouse_released, on_key_pressed, mouse_presses,
                 wait_for_click_click_happened, currently_waiting_for_click>>
  /\ UNCHANGED <<waitVars, delivered, invoked, mouse_returned>>
  /\ UNCHANGED sceneVars

get_new_key_presses ==
  LET presses == key_presses IN
  /\ key_presses' = <<>>
  /\ key_returned' = key_returned \o presses
  /\ NoteDrain("get_new_key_presses")
  /\ UNCHANGED <<on_mouse_pressed, on_mouse_released, on_key_pressed, mouse_presses,
                 wait_for_click_click_happened, currently_waiting_for_click>>
  /\ UNCHANGED <<waitVars, delivered, invoked, mouse_returned>>
  /\ UNCHANGED sceneVars

---------------------------------------------------------------------------
(* wait_for_click.  The call is a polling loop, so it is modelled in two   *)
(* steps: entering the loop and leaving it.  Between the two, update()     *)
(* runs the toolkit's event dispatch: the handlers below are the steps     *)
(* that happen there.                                                      *)

\* the frame of a wait_for_click call that has just begun: got_release
\* tells whether a release has been delivered while this call was the one
\* polling (the innermost call in progress)
NewFrame == [got_release |-> FALSE]

\* wait_for_click_enter without line 281: a release recorded before the
\* call is not forgotten
wait_for_click_enter_no_reset ==
  /\ currently_waiting_for_click' = TRUE
  /\ wait_for_click_click_happened' = wait_for_click_click_happened
  /\ wait_stack' = Append(wait_stack, NewFrame)
  /\ release_pending' = FALSE

\* lines 280-281, then the first test of the loop condition (which is
\* true, so the loop is entered)
wait_for_click_enter ==
  /\ currently_waiting_for_click' = TRUE
  /\ wait_for_click_click_happened' = FALSE
  /\ wait_stack' = Append(wait_stack, NewFrame)
  /\ release_pending' = FALSE

\* the program calls wait_for_click (a call made while another one is
\* polling can only come from a callback: see key_pressed)
wait_for_click_call ==
  /\ waitDepth = 0
  /\ wait_for_click_enter
  /\ UNCHANGED <<on_mouse_pressed, on_mouse_released, on_key_pressed,
                 mouse_presses, key_presses>>
  /\ UNCHANGED historyVars
  /\ UNCHANGED sceneVars

\* the loop condition of line 282 is false: lines 284-285, and the
\* innermost call returns
wait_for_click_return ==
  /\ waitDepth > 0
  /\ wait_for_click_click_happened
  /\ currently_waiting_for_click' = FALSE
  /\ wait_for_click_click_happened' = FALSE
  /\ wait_stack' = SubSeq(wait_stack, 1, Len(wait_stack) - 1)
  /\ release_pending' = FALSE
  /\ UNCHANGED <<on_mouse_pressed, on_mouse_released, on_key_pressed,
                 mouse_presses, key_presses>>
  /\ UNCHANGED historyVars
  /\ UNCHANGED sceneVars

---------------------------------------------------------------------------
(* The handlers bound to the toolkit's input events.                       *)

\* __mouse_pressed with "if" for the "elif" of line 215: a press passed to
\* the callback is queued as well
mouse_pressed_also_queues ==
  /\ Len(delivered) < MaxEvents
  /\ IF ~currently_waiting_for_click /\ on_mouse_pressed # None
       THEN /\ NoteEvent("press", "callback", on_mouse_pressed)
            /\ mouse_presses' = Append(mouse_presses, NextEvent)
       ELSE IF ~currently_waiting_for_click
         THEN /\ mouse_presses' = Append(mouse_presses, NextEvent)
              /\ NoteEvent("press", "queued", None)
         ELSE /\ NoteEvent("press", "none", None)
              /\ UNCHANGED mouse_presses
  /\ UNCHANGED <<on_mouse_pressed, on_mouse_released, on_key_pressed, key_presses,
                 wait_for_click_click_happened, currently_waiting_for_click>>
  /\ UNCHANGED waitVars
  /\ UNCHANGED sceneVars

\* __mouse_pressed
mouse_pressed ==
  /\ Len(delivered) < MaxEvents
  /\ IF ~currently_waiting_for_click /\ on_mouse_pressed # None
       THEN /\ NoteEvent("press", "callback", on_mouse_pressed)
            /\ UNCHANGED mouse_presses
       ELSE IF ~currently_waiting_for_click
         THEN /\ mouse_presses' = Append(mouse_presses, NextEvent)
              /\ NoteEvent("press", "queued", None)
         ELSE /\ NoteEvent("press", "none", None)
              /\ UNCHANGED mouse_presses
  /\ UNCHANGED <<on_mouse_pressed, on_mouse_released, on_key_pressed, key_presses,
                 wait_for_click_click_happened, currently_waiting_for_click>>
  /\ UNCHANGED waitVars
  /\ UNCHANGED sceneVars

\* the wait_for_click call that is polling, if any, has now had a release
\* delivered
SawRelease(stack) ==
  [i \in 1..Len(stack) |-> IF i = Len(stack) THEN [got_release |-> TRUE] ELSE stack[i]]

\* __mouse_released
mouse_released ==
  /\ Len(delivered) < MaxEvents
  /\ wait_for_click_click_happened' = TRUE
  /\ IF currently_waiting_for_click
       THEN NoteEvent("release", "wait", None)
       ELSE IF on_mouse_released # None
         THEN NoteEvent("release", "callback", on_mouse_released)
         ELSE NoteEvent("release", "none", None)
  /\ wait_stack' = SawRelease(wait_stack)
  /\ release_pending' = (waitDepth > 0)
  /\ UNCHANGED <<on_mouse_pressed, on_mouse_released, on_key_pressed,
                 mouse_presses, key_presses, currently_waiting_for_click>>
  /\ UNCHANGED sceneVars

\* __key_pressed doing nothing while currently_waiting_for_click is set, as
\* __mouse_pressed does
key_pressed_suppressed ==
  /\ Len(delivered) < MaxEvents
  /\ IF currently_waiting_for_click
       THEN /\ NoteEvent("key", "none", None)
            /\ UNCHANGED key_presses
       ELSE IF on_key_pressed # None
         THEN /\ NoteEvent("key", "callback", on_key_pressed)
              /\ UNCHANGED key_presses
         ELSE /\ key_presses' = Append(key_presses, NextEvent)
              /\ NoteEvent("key", "queued", None)
  /\ UNCHANGED <<wait_for_click_click_happened, currently_waiting_for_click, waitVars>>
  /\ UNCHANGED <<on_mouse_pressed, on_mouse_released, on_key_pressed, mouse_presses>>
  /\ UNCHANGED sceneVars

\* __key_pressed.  The callback is client code; the one thing it may do
\* that the other steps of this model do not already cover is to call
\* wait_for_click itself, while the call that is polling has not returned.
key_pressed ==
  /\ Len(delivered) < MaxEvents
  /\ IF on_key_pressed # None
       THEN /\ NoteEvent("key", "callback", on_key_pressed)
            /\ UNCHANGED key_presses
            /\ \/ UNCHANGED <<wait_for_click_click_happened,
                              currently_waiting_for_click, waitVars>>
               \/ /\ waitDepth > 0
                  /\ waitDepth < MaxDepth
                  /\ wait_for_click_enter
       ELSE /\ key_presses' = Append(key_presses, NextEvent)
            /\ NoteEvent("key", "queued", None)
            /\ UNCHANGED <<wait_for_click_click_happened,
                           currently_waiting_for_click, waitVars>>
  /\ UNCHANGED <<on_mouse_pressed, on_mouse_released, on_key_pressed, mouse_presses>>
  /\ UNCHANGED sceneVars

---------------------------------------------------------------------------
(* The Canvas event machinery as a state machine.                          *)

\* self._image_gb_protection = {}
NoImages == << >>

\* no script runs and nothing is drawn
NoScene ==
  /\ items = <<>>
  /\ background = ""
  /\ raised = [call |-> "none", obj |-> 0, color |-> "", error |-> None]
  /\ script = "none"
  /\ pc = "none"
  /\ y0 = 0
  /\ stdout = <<>>
  /\ frames = 0
  /\ prev_fill = None
  /\ _image_gb_protection = NoImages

Init == CanvasInit /\ NoScene

Next ==
  \/ \E callback \in Callbacks \cup {None} : set_on_mouse_pressed(callback)
  \/ \E callback \in Callbacks \cup {None} : set_on_mouse_released(callback)
  \/ \E callback \in Callbacks \cup {None} : set_on_key_pressed(callback)
  \/ get_new_mouse_clicks
  \/ get_new_key_presses
  \/ wait_for_click_call
  \/ wait_for_click_return
  \/ mouse_pressed
  \/ mouse_released
  \/ key_pressed

Spec == Init /\ [][Next]_vars

\* wait_for_click's loop keeps running: once the loop condition is false
\* the call returns
FairSpec == Spec /\ WF_vars(wait_for_click_return)

---------------------------------------------------------------------------
(* Vocabulary of the properties of the event machinery.                    *)

\* the step delivers an input event of this kind
EventStep(kind) ==
  /\ Len(delivered') = Len(delivered) + 1
  /\ delivered'[Len(delivered')].kind = kind

\* what the handler did with the event the step delivers
ArrivedFate == delivered'[Len(delivered')].fate

\* the step is a call of this drain (a call that repeats the previous one
\* for the third time or more changes nothing and is no step)
DrainStep(call) == last_drain' # last_drain /\ last_drain'.call = call

\* the step is the second of two calls in a row of the same drain
SecondDrainStep(call) ==
  /\ last_drain = [call |-> call, times |-> 1]
  /\ last_drain' = [call |-> call, times |-> 2]

\* the step is the return of a wait_for_click call
ReturnStep == Len(wait_stack') < Len(wait_stack)

\* the events of this kind that a handler appended to its queue, in arrival order
Queued(kind) ==
  SelectSeq([i \in 1..Len(delivered) |-> i],
            LAMBDA i : delivered[i] = Event(kind, "queued"))

Range(seq) == {seq[i] : i \in 1..Len(seq)}

---------------------------------------------------------------------------
(* C2 *)

\* the events that are in a queue or were returned by a drain
Drainable == Range(mouse_returned) \cup Range(mouse_presses)
               \cup Range(key_returned) \cup Range(key_presses)

\* C2 as stated: a mouse press (a key press) that arrives while a callback
\* of its kind is registered is passed to that callback and is not appended
\* to the queue, and no event is both passed to a callback and returned by
\* a drain.
C2_DeliveredToCallback ==
  /\ [][ /\ (EventStep("press") /\ on_mouse_pressed # None)
              => /\ ArrivedFate = "callback"
                 /\ invoked' = on_mouse_pressed
                 /\ mouse_presses' = mouse_presses
         /\ (EventStep("key") /\ on_key_pressed # None)
              => /\ ArrivedFate = "callback"
                 /\ invoked' = on_key_pressed
                 /\ key_presses' = key_presses ]_vars
  /\ [](\A i \in Drainable : delivered[i].fate # "callback")

\* C2 amended: a mouse press (a key press) that arrives while a callback of
\* its kind is registered is never appended to the queue; it is passed to
\* that callback, except that a mouse press arriving while
\* currently_waiting_for_click is set is passed to nobody; and no event is
\* both passed to a callback and returned by a drain (every event in a
\* queue or in a drain's result is one a handler queued).
C2_QueueOrCallback ==
  /\ [][ /\ (EventStep("press") /\ on_mouse_pressed # None)
              => /\ mouse_presses' = mouse_presses
                 /\ IF currently_waiting_for_click
                      THEN ArrivedFate = "none" /\ invoked' = None
                      ELSE ArrivedFate = "callback" /\ invoked' = on_mouse_pressed
         /\ (EventStep("key") /\ on_key_pressed # None)
              => /\ ArrivedFate = "callback"
                 /\ invoked' = on_key_pressed
                 /\ key_presses' = key_presses ]_vars
  /\ [](\A i \in Drainable : delivered[i].fate = "queued")

\* a press was queued, then a callback was registered and the next press
\* was passed to it, then get_new_mouse_clicks returned the first press only
C2_Witness ==
  /\ delivered = <<Event("press", "queued"), Event("press", "callback")>>
  /\ on_mouse_pressed # None
  /\ invoked = on_mouse_pressed
  /\ last_drain.call = "get_new_mouse_clicks"
  /\ mouse_returned = <<1>>

---------------------------------------------------------------------------
(* C3 *)

\* C3: the results of get_new_mouse_clicks (get_new_key_presses), one after
\* the other and followed by what is still in the queue, are exactly the
\* mouse presses (key presses) that were queued, each once and in arrival
\* order; a call returns the whole queue, leaves it empty and changes
\* neither the other queue nor what the other drain has returned.
C3_DrainReturnsQueued ==
  /\ [](/\ mouse_returned \o mouse_presses = Queued("press")
        /\ key_returned \o key_presses = Queued("key"))
  /\ [][ /\ DrainStep("get_new_mouse_clicks")
              => /\ mouse_returned' = mouse_returned \o mouse_presses
                 /\ mouse_presses' = <<>>
                 /\ key_presses' = key_presses
                 /\ key_returned' = key_returned
         /\ DrainStep("get_new_key_presses")
              => /\ key_returned' = key_returned \o key_presses
                 /\ key_presses' = <<>>
                 /\ mouse_presses' = mouse_presses
                 /\ mouse_returned' = mouse_returned ]_vars

\* presses 1 and 3 were returned by get_new_mouse_clicks, which left its
\* queue empty and the key press 2 in the other queue
C3_Witness ==
  /\ mouse_returned = <<1, 3>>
  /\ mouse_presses = <<>>
  /\ key_presses = <<2>>
  /\ last_drain.call = "get_new_mouse_clicks"

---------------------------------------------------------------------------
(* C4 *)

\* C4: the second of two calls in a row of the same drain, with no input
\* event delivered between them, returns the empty sequence: nothing is
\* added to what the drains have returned.
C4_SecondDrainEmpty ==
  [][ (SecondDrainStep("get_new_mouse_clicks") \/ SecondDrainStep("get_new_key_presses"))
        => /\ mouse_returned' = mouse_returned
           /\ key_returned' = key_returned ]_vars

\* get_new_key_presses was called twice in a row, and the first call
\* returned the two key presses that were queued
C4_Witness ==
  /\ last_drain = [call |-> "get_new_key_presses", times |-> 2]
  /\ key_returned = <<1, 2>>
  /\ Len(delivered) = 2

---------------------------------------------------------------------------
(* C5 *)

\* C5 as stated: while a wait_for_click call has started and not returned,
\* a mouse press or release that is delivered leaves mouse_presses
\* unchanged and is passed to no callback.
C5_SuppressedWhileBlocked ==
  [][ (waitDepth > 0 /\ (EventStep("press") \/ EventStep("release")))
        => /\ mouse_presses' = mouse_presses
           /\ ArrivedFate \notin {"queued", "callback"}
           /\ invoked' = None ]_vars

---------------------------------------------------------------------------
(* C6 *)

---------------------------------------------------------------------------
(* C7 *)

\* C7 as stated: a wait_for_click call returns only after a release was
\* delivered while it was polling, and a call to which a release was
\* delivered while it was polling does not stay the polling call for ever:
\* it returns (or, for the time being, a call nested in it is the one
\* polling).
C7_BlocksUntilRelease ==
  /\ [][ReturnStep => wait_stack[Len(wait_stack)].got_release]_vars
  /\ \A d \in 1..MaxDepth :
       (Len(wait_stack) = d /\ wait_stack[d].got_release) ~> (Len(wait_stack) # d)

---------------------------------------------------------------------------
(* C11 *)

---------------------------------------------------------------------------
(* The items of the tkinter canvas and the wrapper's calls on them.        *)

\* a length in pixels as a coordinate (tenths of a pixel)
Px(n) == 10 * n

\* the value of an option that an item's type does not have
NoOption == "n/a"

\* a canvas item
Item(type, coords, fill, outline, tags) ==
  [type |-> type, coords |-> coords, fill |-> fill, outline |-> outline, tags |-> tags]

\* tkinter's create_oval and create_rectangle: drawn filled and outlined
create_oval(x0, y0_, x1, y1, fill, outline, tags) ==
  Item("oval", <<x0, y0_, x1, y1>>, fill, outline, tags)

create_rectangle(x0, y0_, x1, y1, fill, outline, tags) ==
  Item("rectangle", <<x0, y0_, x1, y1>>, fill, outline, tags)

\* tkinter's create_text: text has a fill colour and no outline
create_text(x, y, fill) == Item("text", <<x, y>>, fill, NoOption, {})

\* ImageTk.PhotoImage(image) of the file opened and resized
PhotoImage(file_path, width, height) ==
  [file_path |-> file_path, width |-> width, height |-> height]

\* the item of create_image_with_size: an image has neither fill nor
\* outline; it displays the PhotoImage made of the file
create_image_with_size(x, y, width, height, file_path) ==
  [type |-> "image", coords |-> <<x, y>>, fill |-> NoOption, outline |-> NoOption,
   tags |-> {}, image |-> PhotoImage(file_path, width, height)]

\* what a tagOrId argument denotes: the item of a handle, the items that
\* carry a tag
WithId(handle) == {handle}

WithTag(its, tag) == {h \in 1..Len(its) : tag \in its[h].tags}

\* the first of the items denoted: the one tkinter's coords() and type()
\* answer for
First(objs) == CHOOSE h \in objs : \A k \in objs : h <= k

coords(its, objs) == its[First(objs)].coords

type(its, objs) == its[First(objs)].type

\* coordinates displaced: x's by dx, y's by dy
Shift(cs, dx, dy) == [i \in 1..Len(cs) |-> IF i % 2 = 1 THEN cs[i] + dx ELSE cs[i] + dy]

\* move that displaces every item of the canvas, whatever tagOrId denotes
move_all(its, objs, dx, dy) ==
  [h \in 1..Len(its) |-> [its[h] EXCEPT !.coords = Shift(@, dx, dy)]]

\* tkinter's move(tagOrId, dx, dy)
move(its, objs, dx, dy) ==
  [h \in 1..Len(its) |->
     IF h \in objs
       THEN [its[h] EXCEPT !.coords = Shift(@, dx, dy)]
       ELSE its[h]]

\* get_top_y.  For a text item the code calls self.get_height, which
\* neither graphics.py nor tkinter.Canvas defines.
get_top_y(its, objs) ==
  IF type(its, objs) # "text"
    THEN coords(its, objs)[2]
    ELSE "AttributeError"

\* the colour options an item of a type has (tkinter raises a TclError
\* "unknown option" for any other)
HasOption(item_type, option) ==
  CASE option = "fill" -> item_type \in {"oval", "rectangle", "text"}
    [] option = "outline" -> item_type \in {"oval", "rectangle"}

\* a string that names no colour (tkinter raises a TclError "unknown color
\* name" for it)
NoSuchColor == "no such color"

KnownColor(color) == color # NoSuchColor

\* tkinter's itemconfig(obj, option=value) accepts the call (the model
\* configures one item in a call)
ItemconfigAccepts(its, objs, option, value) ==
  /\ KnownColor(value)
  /\ \A h \in objs : HasOption(its[h].type, option)

\* tkinter's itemconfig(obj, option=value) on a call it accepts
itemconfig(its, objs, option, value) ==
  [h \in 1..Len(its) |->
     IF h \in objs
       THEN IF option = "fill" THEN [its[h] EXCEPT !.fill = value]
                               ELSE [its[h] EXCEPT !.outline = value]
       ELSE its[h]]

\* the outcome of a colour setter: the items after it and the error it raises
Outcome(its, error) == [items |-> its, error |-> error]

\* set_fill_color with the TclError swallowed instead of raised again
set_fill_color_silent(its, objs, fill_color) ==
  IF ItemconfigAccepts(its, objs, "fill", fill_color)
    THEN Outcome(itemconfig(its, objs, "fill", fill_color), None)
    ELSE Outcome(its, None)

\* set_fill_color
set_fill_color(its, objs, fill_color) ==
  IF ItemconfigAccepts(its, objs, "fill", fill_color)
    THEN Outcome(itemconfig(its, objs, "fill", fill_color), None)
    ELSE Outcome(its, "TclError: You can't set the fill color on this object")

\* set_outline_color
set_outline_color(its, objs, outline_color) ==
  IF ItemconfigAccepts(its, objs, "outline", outline_color)
    THEN Outcome(itemconfig(its, objs, "outline", outline_color), None)
    ELSE Outcome(its, "TclError: You can't set the outline color on this object")

\* the record of a colour setter's call
Raised(call, obj, color, error) ==
  [call |-> call, obj |-> obj, color |-> color, error |-> error]

---------------------------------------------------------------------------
(* sunset.py and extension.py.                                             *)

CANVAS_WIDTH == 600

CANVAS_HEIGHT == 300

SUN_SIZE == 70

\* CANVAS_HEIGHT * (1 / 3), which is 100.0 in the doubles of Python
ORANGE_Y == (Px(CANVAS_HEIGHT) * 1) \div 3

\* CANVAS_HEIGHT * (2 / 3), which is 200.0 in the doubles of Python
RED_Y == (Px(CANVAS_HEIGHT) * 2) \div 3

Scripts == {"sunset", "extension"}

\* get_sun_color of sunset.py with the second comparison made against the
\* threshold of the first, so that no top edge gives orange
get_sun_color_without_orange(top_y) ==
  IF top_y > RED_Y - Px(SUN_SIZE) \div 2 THEN "red"
  ELSE IF top_y > RED_Y - Px(SUN_SIZE) \div 2 THEN "orange"
  ELSE "yellow"

\* get_sun_color of sunset.py with >= for > in both comparisons
get_sun_color_inclusive(top_y) ==
  IF top_y >= RED_Y - Px(SUN_SIZE) \div 2 THEN "red"
  ELSE IF top_y >= ORANGE_Y - Px(SUN_SIZE) \div 2 THEN "orange"
  ELSE "yellow"

\* get_sun_color of sunset.py
get_sun_color(top_y) ==
  IF top_y > RED_Y - Px(SUN_SIZE) \div 2 THEN "red"
  ELSE IF top_y > ORANGE_Y - Px(SUN_SIZE) \div 2 THEN "orange"
  ELSE "yellow"

\* get_sun_color of extension.py with the two colours exchanged
extension_get_sun_color_swapped(top_y) ==
  IF top_y > RED_Y - Px(SUN_SIZE) \div 2 THEN "orange"
  ELSE IF top_y > ORANGE_Y - Px(SUN_SIZE) \div 2 THEN "red"
  ELSE "yellow"

\* get_sun_color of extension.py
extension_get_sun_color(top_y) ==
  IF top_y > RED_Y - Px(SUN_SIZE) \div 2 THEN "red"
  ELSE IF top_y > ORANGE_Y - Px(SUN_SIZE) \div 2 THEN "orange"
  ELSE "yellow"

\* is_off_screen of sunset.py with > for >=
is_off_screen_strict(its, objs) == get_top_y(its, objs) > Px(CANVAS_HEIGHT)

\* is_off_screen of sunset.py
is_off_screen(its, objs) == get_top_y(its, objs) >= Px(CANVAS_HEIGHT)

\* is_off_screen of extension.py
extension_is_off_screen(its, objs) == get_top_y(its, objs) >= Px(CANVAS_HEIGHT)

\* the items main() of sunset.py creates, the sun with its top edge at y0_
\* (main has y0 = 0)
sunset_scene(y0_) ==
  << create_oval((Px(CANVAS_WIDTH) - Px(SUN_SIZE)) \div 2, y0_,
                 (Px(CANVAS_WIDTH) + Px(SUN_SIZE)) \div 2, y0_ + Px(SUN_SIZE),
                 "yellow", "black", {}) >>

\* sea_y of extension.py: CANVAS_HEIGHT * (3 / 4)
sea_y == (Px(CANVAS_HEIGHT) * 3) \div 4

\* the ovals of the wavy sea: for i in range(0, 1000, 60)
waves ==
  [k \in 1..17 |->
     create_oval(Px(60 * (k - 1)), sea_y - Px(15), Px(60 * (k - 1) + 60), sea_y + Px(15),
                 "turquoise4", "turquoise4", {"wave"})]

\* the two clouds
clouds ==
  << create_oval(Px(90), Px(40), Px(140), Px(80), "light cyan", "light cyan", {"cloud1"}),
     create_oval(Px(120), Px(30), Px(180), Px(90), "light cyan", "light cyan", {"cloud1"}),
     create_oval(Px(160), Px(40), Px(210), Px(80), "light cyan", "light cyan", {"cloud1"}),
     create_oval(Px(490), Px(30), Px(545), Px(65), "light cyan", "light cyan", {"cloud2"}),
     create_oval(Px(460), Px(30), Px(515), Px(65), "light cyan", "light cyan", {"cloud2"}),
     create_oval(Px(475), Px(55), Px(530), Px(90), "light cyan", "light cyan", {"cloud2"}),
     create_oval(Px(445), Px(55), Px(500), Px(90), "light cyan", "light cyan", {"cloud2"}) >>

\* the items main() of extension.py creates before its loop, the sun with
\* its top edge at y0_ (main has y0 = 0)
extension_scene(y0_) ==
  << create_rectangle(0, sea_y, Px(CANVAS_WIDTH), Px(CANVAS_HEIGHT),
                      "turquoise4", "turquoise4", {}) >>
  \o waves
  \o clouds
  \o << create_oval((Px(CANVAS_WIDTH) - Px(SUN_SIZE)) \div 2, y0_,
                    (Px(CANVAS_WIDTH) + Px(SUN_SIZE)) \div 2, y0_ + Px(SUN_SIZE),
                    "yellow", "yellow", {}) >>

\* the handle create_oval returned for the sun (cir in sunset.py, sun in
\* extension.py): handles count the items created
sun == IF script = "sunset" THEN Len(sunset_scene(0)) ELSE Len(extension_scene(0))

\* the displacement of the sun in a frame: 1 pixel, 0.8 pixel
sun_dy == IF script = "sunset" THEN Px(1) ELSE Px(8) \div 10

\* the top edge of the sun
sun_top == get_top_y(items, WithId(sun))

\* the fill colour of the sun
sun_fill == items[sun].fill

\* the script is at the start of main(), the sun created with its top edge
\* at y0_
Started(s, y0_) ==
  /\ script = s
  /\ items = IF s = "sunset" THEN sunset_scene(y0_) ELSE extension_scene(y0_)
  /\ background = IF s = "sunset" THEN "blue" ELSE "deep sky blue"
  /\ raised = Raised("none", 0, "", None)
  /\ y0 = y0_
  /\ stdout = << >>
  /\ frames = 0
  /\ prev_fill = None
  /\ _image_gb_protection = NoImages

\* while not is_off_screen(canvas, cir)
LoopTest ==
  /\ pc = "while"
  /\ pc' = IF script = "sunset"
             THEN IF is_off_screen(items, WithId(sun)) THEN "print" ELSE "move"
             ELSE IF extension_is_off_screen(items, WithId(sun)) THEN "night" ELSE "move"
  /\ UNCHANGED <<items, background, raised, script, y0, stdout, frames, prev_fill,
                 _image_gb_protection>>
  /\ UNCHANGED <<canvasVars, waitVars, historyVars>>

\* canvas.move of the sun followed at once by the recolouring, before the
\* redraw
MoveSun_then_recolor ==
  /\ pc = "move"
  /\ LET moved == move(items, WithId(sun), 0, sun_dy)
         top == get_top_y(moved, WithId(sun))
         clr == IF script = "sunset" THEN get_sun_color(top)
                                     ELSE extension_get_sun_color(top)
         filled == set_fill_color(moved, WithId(sun), clr).items
     IN  items' = IF script = "sunset"
                    THEN filled
                    ELSE set_outline_color(filled, WithId(sun), clr).items
  /\ frames' = frames + 1
  /\ pc' = IF script = "sunset" THEN "update" ELSE "scenery"
  /\ UNCHANGED <<background, raised, script, y0, stdout, prev_fill,
                 _image_gb_protection>>
  /\ UNCHANGED <<canvasVars, waitVars, historyVars>>

\* canvas.move(cir, 0, 1); canvas.move(sun, 0, 0.8)
MoveSun ==
  /\ pc = "move"
  /\ items' = move(items, WithId(sun), 0, sun_dy)
  /\ frames' = frames + 1
  /\ pc' = IF script = "sunset" THEN "update" ELSE "scenery"
  /\ UNCHANGED <<background, raised, script, y0, stdout, prev_fill,
                 _image_gb_protection>>
  /\ UNCHANGED <<canvasVars, waitVars, historyVars>>

\* the moves of the clouds and of the waves in extension.py
MoveScenery ==
  /\ pc = "scenery"
  /\ items' = move(move(move(items, WithTag(items, "cloud1"), Px(1) \div 10, 0),
                        WithTag(items, "cloud2"), Px(1) \div 10, 0),
                   WithTag(items, "wave"), 0 - Px(5) \div 10, 0)
  /\ pc' = "update"
  /\ UNCHANGED <<background, raised, script, y0, stdout, frames, prev_fill,
                 _image_gb_protection>>
  /\ UNCHANGED <<canvasVars, waitVars, historyVars>>

\* canvas.update() and time.sleep(): the frame is drawn and the script
\* pauses; no event is pending
Refresh ==
  /\ pc = "update"
  /\ pc' = "recolor"
  /\ UNCHANGED <<items, background, raised, script, y0, stdout, frames, prev_fill,
                 _image_gb_protection>>
  /\ UNCHANGED <<canvasVars, waitVars, historyVars>>

\* the recolouring with the top edge as it was before the frame displaced
\* the sun: the colour setters called with get_sun_color(y0): set_fill_color in both scripts, then set_outline_color
\* in extension.py.  An error a setter raises ends the script.
Recolor_position_before_frame ==
  /\ pc = "recolor"
  /\ LET top == get_top_y(items, WithId(sun)) - sun_dy
         clr == IF script = "sunset" THEN get_sun_color(top)
                                     ELSE extension_get_sun_color(top)
         filled == set_fill_color(items, WithId(sun), clr)
         outlined == set_outline_color(filled.items, WithId(sun), clr)
     IN  /\ y0' = top
         /\ prev_fill' = sun_fill
         /\ IF script = "sunset" \/ filled.error # None
              THEN /\ items' = filled.items
                   /\ raised' = Raised("set_fill_color", sun, clr, filled.error)
                   /\ pc' = IF filled.error = None THEN "while" ELSE "raised"
              ELSE /\ items' = outlined.items
                   /\ raised' = Raised("set_outline_color", sun, clr, outlined.error)
                   /\ pc' = IF outlined.error = None THEN "while" ELSE "raised"
  /\ UNCHANGED <<background, script, stdout, frames, _image_gb_protection>>
  /\ UNCHANGED <<canvasVars, waitVars, historyVars>>

\* y0 = canvas.get_top_y(cir) and the colour setters called with
\* get_sun_color(y0): set_fill_color in both scripts, then set_outline_color
\* in extension.py.  An error a setter raises ends the script.
Recolor ==
  /\ pc = "recolor"
  /\ LET top == get_top_y(items, WithId(sun))
         clr == IF script = "sunset" THEN get_sun_color(top)
                                     ELSE extension_get_sun_color(top)
         filled == set_fill_color(items, WithId(sun), clr)
         outlined == set_outline_color(filled.items, WithId(sun), clr)
     IN  /\ y0' = top
         /\ prev_fill' = sun_fill
         /\ IF script = "sunset" \/ filled.error # None
              THEN /\ items' = filled.items
                   /\ raised' = Raised("set_fill_color", sun, clr, filled.error)
                   /\ pc' = IF filled.error = None THEN "while" ELSE "raised"
              ELSE /\ items' = outlined.items
                   /\ raised' = Raised("set_outline_color", sun, clr, outlined.error)
                   /\ pc' = IF outlined.error = None THEN "while" ELSE "raised"
  /\ UNCHANGED <<background, script, stdout, frames, _image_gb_protection>>
  /\ UNCHANGED <<canvasVars, waitVars, historyVars>>

\* the night of extension.py: the background, the caption and the two ovals
\* of the crescent moon
Night ==
  /\ pc = "night"
  /\ background' = "midnight blue"
  /\ items' = items \o << create_text(Px(200), Px(130), "gold"),
                          create_oval(Px(25), Px(25), Px(75), Px(75),
                                      "goldenrod1", "goldenrod1", {}),
                          create_oval(Px(40), Px(15), Px(110), Px(80),
                                      "midnight blue", "midnight blue", {}) >>
  /\ pc' = "print"
  /\ UNCHANGED <<raised, script, y0, stdout, frames, prev_fill,
                 _image_gb_protection>>
  /\ UNCHANGED <<canvasVars, waitVars, historyVars>>

\* print("animation complete"), the message written twice
PrintComplete_twice ==
  /\ pc = "print"
  /\ stdout' = stdout \o << "animation complete", "animation complete" >>
  /\ pc' = "mainloop"
  /\ UNCHANGED <<items, background, raised, script, y0, frames, prev_fill,
                 _image_gb_protection>>
  /\ UNCHANGED <<canvasVars, waitVars, historyVars>>

\* print("animation complete")
PrintComplete ==
  /\ pc = "print"
  /\ stdout' = Append(stdout, "animation complete")
  /\ pc' = "mainloop"
  /\ UNCHANGED <<items, background, raised, script, y0, frames, prev_fill,
                 _image_gb_protection>>
  /\ UNCHANGED <<canvasVars, waitVars, historyVars>>

\* canvas.mainloop(): the script hands control to tkinter for good
MainLoop ==
  /\ pc = "mainloop"
  /\ pc' = "in mainloop"
  /\ UNCHANGED <<items, background, raised, script, y0, stdout, frames, prev_fill,
                 _image_gb_protection>>
  /\ UNCHANGED <<canvasVars, waitVars, historyVars>>

SunInit ==
  /\ CanvasInit
  /\ \E s \in Scripts : Started(s, 0)
  /\ pc = "while"

SunNext ==
  \/ LoopTest
  \/ MoveSun
  \/ MoveScenery
  \/ Refresh
  \/ Recolor
  \/ Night
  \/ PrintComplete
  \/ MainLoop

SunSpec == SunInit /\ [][SunNext]_vars

\* a running script takes its next step
FairSunSpec == SunSpec /\ WF_vars(SunNext)

---------------------------------------------------------------------------
(* The recolouring of the loop body, applied to a sun created at any       *)
(* height and displaced up or down between two recolourings.               *)

\* the lowest top edge of the sun the machine places it at
MaxTopEdge == 3100

\* canvas.move(sun, 0, dy) between two recolourings
Displace(dy) ==
  /\ pc = "while"
  /\ sun_top + dy \in 0..MaxTopEdge
  /\ items' = move(items, WithId(sun), 0, dy)
  /\ pc' = "recolor"
  /\ UNCHANGED <<background, raised, script, y0, stdout, frames, prev_fill,
                 _image_gb_protection>>
  /\ UNCHANGED <<canvasVars, waitVars, historyVars>>

ColorInit ==
  /\ CanvasInit
  /\ \E s \in Scripts : \E top \in 0..MaxTopEdge : Started(s, top)
  /\ pc = "recolor"

ColorNext ==
  \/ Recolor
  \/ \E dy \in {sun_dy, 0 - sun_dy} : Displace(dy)

ColorSpec == ColorInit /\ [][ColorNext]_vars

---------------------------------------------------------------------------
(* The colour setters applied to an item of each type.                     *)

\* one item of each type
shapes ==
  << create_oval(Px(10), Px(10), Px(20), Px(20), "", "black", {}),
     create_rectangle(Px(30), Px(10), Px(40), Px(20), "", "black", {}),
     create_text(Px(50), Px(10), "black"),
     create_image_with_size(Px(70), Px(10), 20, 20, "sun.png") >>

\* the colours the setters are called with
CallColors == {"", "red", "yellow", NoSuchColor}

\* canvas.set_fill_color(obj, fill_color)
SetFillColor(obj, fill_color) ==
  /\ LET r == set_fill_color(items, WithId(obj), fill_color)
     IN  /\ items' = r.items
         /\ raised' = Raised("set_fill_color", obj, fill_color, r.error)
  /\ UNCHANGED <<background, script, pc, y0, stdout, frames, prev_fill,
                 _image_gb_protection>>
  /\ UNCHANGED <<canvasVars, waitVars, historyVars>>

\* canvas.set_outline_color(obj, outline_color)
SetOutlineColor(obj, outline_color) ==
  /\ LET r == set_outline_color(items, WithId(obj), outline_color)
     IN  /\ items' = r.items
         /\ raised' = Raised("set_outline_color", obj, outline_color, r.error)
  /\ UNCHANGED <<background, script, pc, y0, stdout, frames, prev_fill,
                 _image_gb_protection>>
  /\ UNCHANGED <<canvasVars, waitVars, historyVars>>

ShapeInit ==
  /\ CanvasInit
  /\ script = "shapes"
  /\ items = shapes
  /\ background = ""
  /\ raised = Raised("none", 0, "", None)
  /\ pc = "none"
  /\ y0 = 0
  /\ stdout = << >>
  /\ frames = 0
  /\ prev_fill = None
  /\ _image_gb_protection = NoImages

ShapeNext ==
  \/ \E obj \in 1..Len(shapes) : \E color \in CallColors : SetFillColor(obj, color)
  \/ \E obj \in 1..Len(shapes) : \E color \in CallColors : SetOutlineColor(obj, color)

ShapeSpec == ShapeInit /\ [][ShapeNext]_vars

---------------------------------------------------------------------------
(* The colour of the sun (ColorSpec).                                      *)

\* the colours in the order the sun takes them as it sets
Rank(color) ==
  CASE color = "yellow" -> 0
    [] color = "orange" -> 1
    [] color = "red" -> 2

\* a recolouring has happened: y0 is the top edge it read and the sun has
\* the colour it set
Recolored == prev_fill # None

\* the step is a recolouring
RecolorStep == pc = "recolor" /\ pc' # "recolor"

\* C1: get_sun_color is the threshold function of the sun's top edge.  The
\* thresholds RED_Y - SUN_SIZE/2 and ORANGE_Y - SUN_SIZE/2 are 165 and 65
\* pixels; for every top edge y0 that a recolouring read, in sunset.py and
\* in extension.py alike, the colour it set is red iff y0 > 165, orange iff
\* 65 < y0 <= 165 and yellow otherwise (y0 <= 65); in particular 0 gives
\* yellow, 66 gives orange and 166 gives red.
C1_ThresholdColor ==
  Recolored =>
    /\ RED_Y - Px(SUN_SIZE) \div 2 = Px(165)
    /\ ORANGE_Y - Px(SUN_SIZE) \div 2 = Px(65)
    /\ sun_fill \in {"red", "orange", "yellow"}
    /\ (sun_fill = "red") <=> (y0 > Px(165))
    /\ (sun_fill = "orange") <=> (Px(65) < y0 /\ y0 <= Px(165))
    /\ (sun_fill = "yellow") <=> (y0 <= Px(65))
    /\ (y0 = 0) => (sun_fill = "yellow")
    /\ (y0 = Px(66)) => (sun_fill = "orange")
    /\ (y0 = Px(166)) => (sun_fill = "red")

\* the sun of extension.py recoloured orange with its top edge at 66
C1_Witness ==
  /\ Recolored
  /\ script = "extension"
  /\ y0 = Px(66)
  /\ sun_fill = "orange"
  /\ raised.error = None

---------------------------------------------------------------------------
(* The animation loop (SunSpec, FairSunSpec).                              *)

\* C9: the animation loop terminates.  A loop test leaves the loop iff the
\* top edge of the sun has reached CANVAS_HEIGHT (is >= 300 pixels), so no
\* frame begins with the top edge there; the script reaches mainloop; and
\* sunset.py has then run exactly 300 frames.
C9_LoopTerminates ==
  /\ [][(pc = "while" /\ pc' # "while") =>
          ((pc' # "move") <=> (sun_top >= Px(300)))]_vars
  /\ [][(frames' # frames) => (frames' = frames + 1 /\ sun_top < Px(300))]_vars
  /\ <>(pc = "in mainloop")
  /\ []((pc \in {"print", "mainloop", "in mainloop"} /\ script = "sunset") => frames = 300)

\* sunset.py is in mainloop after 300 frames, the sun's top edge at 300
C9_Witness ==
  /\ script = "sunset"
  /\ pc = "in mainloop"
  /\ frames = 300
  /\ sun_top = Px(300)
  /\ stdout = << "animation complete" >>

---------------------------------------------------------------------------
(* The errors of the colour setters (ShapeSpec).                           *)

\* the option a colour setter sets
OptionOf(call) == IF call = "set_fill_color" THEN "fill" ELSE "outline"

\* the types without the visual channel: no fill on an image, no outline on
\* an image or on text
NoChannel(item_type, option) ==
  \/ option = "fill" /\ item_type = "image"
  \/ option = "outline" /\ item_type \in {"image", "text"}

\* the colour an item has for an option
ColorOf(item, option) == IF option = "fill" THEN item.fill ELSE item.outline

\* the call of the step leaves the items as they were
CallFailed == raised'.error # None

\* a failed call changes no item; any other call sets the option of its
\* item and nothing else
CallEffect ==
  LET obj == raised'.obj
      option == OptionOf(raised'.call)
  IN  /\ CallFailed => items' = items
      /\ ~CallFailed =>
           /\ ColorOf(items'[obj], option) = raised'.color
           /\ \A h \in 1..Len(items) : h # obj => items'[h] = items[h]
           /\ items'[obj].type = items[obj].type
           /\ items'[obj].coords = items[obj].coords
           /\ ColorOf(items'[obj], OptionOf(IF option = "fill" THEN "set_outline_color"
                                                               ELSE "set_fill_color"))
                = ColorOf(items[obj], OptionOf(IF option = "fill" THEN "set_outline_color"
                                                                  ELSE "set_fill_color"))

\* C10 as stated: a call of set_fill_color or set_outline_color raises an
\* error iff the type of its item has no such channel (fill on an image,
\* outline on an image or on text); a failed call changes no item, any other
\* call sets the colour.
C10_ErrorIffNoChannel ==
  [][ /\ CallFailed <=> NoChannel(items[raised'.obj].type, OptionOf(raised'.call))
      /\ CallEffect
    ]_vars

\* C10 amended: the call raises the error iff the type of its item has no
\* such channel or the string names no colour; a failed call changes no
\* item, any other call sets the colour.
C10_ErrorIffNoChannelOrColor ==
  [][ /\ CallFailed <=> \/ NoChannel(items[raised'.obj].type, OptionOf(raised'.call))
                        \/ ~KnownColor(raised'.color)
      /\ CallFailed =>
           raised'.error = IF raised'.call = "set_fill_color"
                             THEN "TclError: You can't set the fill color on this object"
                             ELSE "TclError: You can't set the outline color on this object"
      /\ CallEffect
    ]_vars

\* set_outline_color has raised its error on the text item, which is as it
\* was created
C10_Witness ==
  /\ raised.call = "set_outline_color"
  /\ items[raised.obj].type = "text"
  /\ KnownColor(raised.color)
  /\ raised.error = "TclError: You can't set the outline color on this object"
  /\ items[raised.obj] = shapes[raised.obj]

---------------------------------------------------------------------------
(* The displacements of a frame (SunSpec).                                 *)

\* the item's coordinates after the step are those before it displaced by
\* (dx, dy)
DisplacedBy(h, dx, dy) ==
  items'[h].coords = << items[h].coords[1] + dx, items[h].coords[2] + dy,
                        items[h].coords[3] + dx, items[h].coords[4] + dy >>

\* the item's coordinates are those it was created with displaced by (dx, dy)
DisplacedFromStart(h, dx, dy) ==
  items[h].coords = << extension_scene(0)[h].coords[1] + dx,
                       extension_scene(0)[h].coords[2] + dy,
                       extension_scene(0)[h].coords[3] + dx,
                       extension_scene(0)[h].coords[4] + dy >>

\* what the calls of move are tried on: each handle, each tag of
\* extension.py, and a tag no item carries
TagsTried == {"wave", "cloud1", "cloud2", "no such tag"}

\* the offsets the calls of move are tried with, in tenths of a pixel
OffsetsTried == { <<0, 8>>, <<1, 0>>, <<0 - 5, 0>>, <<10, 0 - 10>> }

\* move(its, objs, dx, dy) has displaced the items objs by (dx, dy) and has
\* left every other item, and everything but the coordinates, as it was
MovedExactly(its, moved, objs, dx, dy) ==
  /\ Len(moved) = Len(its)
  /\ \A h \in 1..Len(its) :
       /\ moved[h].coords =
            IF h \in objs
              THEN [i \in 1..Len(its[h].coords) |->
                      its[h].coords[i] + (IF i % 2 = 1 THEN dx ELSE dy)]
              ELSE its[h].coords
       /\ [moved[h] EXCEPT !.coords = its[h].coords] = its[h]

\* the handles of extension.py's items, in the order main() creates them:
\* the sea, the 17 waves, the 3 ovals of cloud1, the 4 ovals of cloud2, the sun
SeaHandle == 1

WaveHandles == 2..18

Cloud1Handles == 19..21

Cloud2Handles == 22..25

SunHandle == 26

\* C12: move(tagOrId, dx, dy) displaces every item the handle or tag
\* denotes by (dx, dy), leaves every other item where it is and does nothing
\* when nothing matches.  So in each frame of extension.py the waves move by
\* -0.5 horizontally only, the ovals of the two clouds by +0.1 horizontally
\* only, the sun by 0.8 vertically only, and the sea not at all: no other
\* step of main() moves an item, and at each loop test after n frames every
\* item is where it was created, displaced n times by its offset.
C12_MoveTranslatesMatching ==
  /\ [](\A d \in OffsetsTried :
          /\ \A h \in 1..Len(items) :
               MovedExactly(items, move(items, WithId(h), d[1], d[2]), {h}, d[1], d[2])
          /\ \A tag \in TagsTried :
               MovedExactly(items, move(items, WithTag(items, tag), d[1], d[2]),
                            {h \in 1..Len(items) : tag \in items[h].tags}, d[1], d[2])
          /\ move(items, WithTag(items, "no such tag"), d[1], d[2]) = items)
  /\ [][ script = "extension" =>
           /\ \A h \in WaveHandles :
                IF pc = "scenery" THEN DisplacedBy(h, 0 - 5, 0) ELSE DisplacedBy(h, 0, 0)
           /\ \A h \in Cloud1Handles \cup Cloud2Handles :
                IF pc = "scenery" THEN DisplacedBy(h, 1, 0) ELSE DisplacedBy(h, 0, 0)
           /\ IF pc = "move" THEN DisplacedBy(SunHandle, 0, 8)
                             ELSE DisplacedBy(SunHandle, 0, 0)
           /\ DisplacedBy(SeaHandle, 0, 0) ]_vars
  /\ []((script = "extension" /\ pc = "while") =>
          /\ items[SeaHandle].type = "rectangle"
          /\ \A h \in WaveHandles : items[h].tags = {"wave"}
          /\ \A h \in Cloud1Handles : items[h].tags = {"cloud1"}
          /\ \A h \in Cloud2Handles : items[h].tags = {"cloud2"}
          /\ sun = SunHandle
          /\ DisplacedFromStart(SeaHandle, 0, 0)
          /\ \A h \in WaveHandles : DisplacedFromStart(h, 0 - 5 * frames, 0)
          /\ \A h \in Cloud1Handles \cup Cloud2Handles : DisplacedFromStart(h, frames, 0)
          /\ DisplacedFromStart(SunHandle, 0, 8 * frames))

\* extension.py is at the loop test after two frames: the first wave is
\* one pixel to the left of where it was created, the first cloud oval 0.2
\* pixel to the right, the sun 1.6 pixel down
C12_Witness ==
  /\ script = "extension"
  /\ pc = "while"
  /\ frames = 2
  /\ items[2].coords[1] = 0 - Px(1)
  /\ items[19].coords[1] = Px(90) + 2
  /\ items[SunHandle].coords[2] = 16
  /\ items[SeaHandle].coords = << 0, sea_y, Px(CANVAS_WIDTH), Px(CANVAS_HEIGHT) >>

---------------------------------------------------------------------------
(* The coordinates as tkinter holds them: IEEE 754 doubles.  A double is   *)
(* written here as the exact number i + (f1 * 2^28 + f0) / 2^56 with i an  *)
(* integer (the floor) and 0 <= f1, f0 < 2^28.  Every double of magnitude  *)
(* from 1/16 to 2^24 is such a number, and so are the sums and differences *)
(* of such doubles: the coordinates, offsets and results of this model.    *)

Limb == 2^28

Double(i, f1, f0) == [i |-> i, f1 |-> f1, f0 |-> f0]

\* the digits carried: the same number with 0 <= f1, f0 < 2^28
Normal(i, f1, f0) ==
  LET g1 == f1 + (f0 \div Limb)
  IN  Double(i + (g1 \div Limb), g1 % Limb, f0 % Limb)

\* a whole number of pixels (Python's int passed to tkinter)
Whole(n) == Double(n, 0, 0)

\* the literals 0.1, 0.8 and 0.5 of extension.py: the doubles nearest to
\* them, 0x3FB999999999999A, 0x3FE999999999999A and 0x3FE0000000000000
Literal01 == Double(0, 26843545, 161061274)

Literal08 == Double(0, 214748364, 214748368)

Literal05 == Double(0, 134217728, 0)

Negated(a) == Normal(0 - a.i, 0 - a.f1, 0 - a.f0)

IsNegative(a) == a.i < 0

IsWhole(a) == a.f1 = 0 /\ a.f0 = 0

\* a < b
Less(a, b) ==
  \/ a.i < b.i
  \/ a.i = b.i /\ a.f1 < b.f1
  \/ a.i = b.i /\ a.f1 = b.f1 /\ a.f0 < b.f0

\* the number of binary digits of n >= 1
BitLength(n) == CHOOSE b \in 1..30 : 2^(b - 1) <= n /\ n < 2^b

\* the number of low digits (of the 56 after the point) that a double of
\* the magnitude of a >= 0 cannot hold in its 53-digit significand
DigitsDropped(a) ==
  IF a.i >= 1 THEN BitLength(a.i) + 3
  ELSE IF a.f1 >= 1 /\ BitLength(a.f1) > 25 THEN BitLength(a.f1) - 25
  ELSE 0

\* a >= 0 rounded to the nearest double, ties to the even significand
RoundedMagnitude(a) ==
  LET k == DigitsDropped(a)
      rest == a.f0 % 2^k
      odd == (a.f0 \div 2^k) % 2 = 1
      up == 2 * rest > 2^k \/ (2 * rest = 2^k /\ odd)
  IN  Normal(a.i, a.f1, a.f0 - rest + (IF up THEN 2^k ELSE 0))

\* a rounded to the nearest double
Rounded(a) == IF IsNegative(a) THEN Negated(RoundedMagnitude(Negated(a)))
                               ELSE RoundedMagnitude(a)

\* the double a + b: the exact sum, rounded
Plus(a, b) == Rounded(Normal(a.i + b.i, a.f1 + b.f1, a.f0 + b.f0))

\* the double a - b
Minus(a, b) == Plus(a, Negated(b))

---------------------------------------------------------------------------
(* The calls of move of the two scripts, made in any order and number on   *)
(* one canvas that holds an item of each group of the scripts, with the    *)
(* coordinates in doubles.                                                 *)

\* calls of move made in one run
MaxMoves == 3

\* coordinates displaced with "if" for the alternation of x and y: dy is
\* added to no coordinate
ShiftDouble_x_only(cs, dx, dy) == [i \in 1..Len(cs) |-> Plus(cs[i], dx)]

\* coordinates displaced: dx added to the x's, dy to the y's
ShiftDouble(cs, dx, dy) ==
  [i \in 1..Len(cs) |-> IF i % 2 = 1 THEN Plus(cs[i], dx) ELSE Plus(cs[i], dy)]

\* tkinter's move(tagOrId, dx, dy) on coordinates in doubles
move_double(its, objs, dx, dy) ==
  [h \in 1..Len(its) |->
     IF h \in objs
       THEN [its[h] EXCEPT !.coords = ShiftDouble(@, dx, dy)]
       ELSE its[h]]

\* the sea, the first wave, the first oval of each cloud and the sun of
\* extension.py, and the sun of sunset.py, as main() creates them
double_scene ==
  << create_rectangle(Whole(0), Whole(225), Whole(CANVAS_WIDTH), Whole(CANVAS_HEIGHT),
                      "turquoise4", "turquoise4", {}),
     create_oval(Whole(0), Whole(225 - 15), Whole(0 + 60), Whole(225 + 15),
                 "turquoise4", "turquoise4", {"wave"}),
     create_oval(Whole(90), Whole(40), Whole(140), Whole(80),
                 "light cyan", "light cyan", {"cloud1"}),
     create_oval(Whole(490), Whole(30), Whole(545), Whole(65),
                 "light cyan", "light cyan", {"cloud2"}),
     create_oval(Whole((CANVAS_WIDTH - SUN_SIZE) \div 2), Whole(0),
                 Whole((CANVAS_WIDTH + SUN_SIZE) \div 2), Whole(0 + SUN_SIZE),
                 "yellow", "yellow", {"sun"}),
     create_oval(Whole((CANVAS_WIDTH - SUN_SIZE) \div 2), Whole(0),
                 Whole((CANVAS_WIDTH + SUN_SIZE) \div 2), Whole(0 + SUN_SIZE),
                 "yellow", "black", {"cir"}) >>

\* the offset of each call of move of the scripts
OffsetOf(call) ==
  CASE call = "cir" -> << Whole(0), Whole(1) >>
    [] call = "sun" -> << Whole(0), Literal08 >>
    [] call = "cloud1" -> << Literal01, Whole(0) >>
    [] call = "cloud2" -> << Literal01, Whole(0) >>
    [] call = "wave" -> << Negated(Literal05), Whole(0) >>

\* one of the calls of move of the scripts (the items that the variables
\* cir and sun hold are found here by a tag of that name)
MoveCall(call) ==
  /\ moves[call] < MaxMoves
  /\ items' = move_double(items, WithTag(items, call), OffsetOf(call)[1], OffsetOf(call)[2])
  /\ moves' = [moves EXCEPT ![call] = @ + 1]
  /\ UNCHANGED <<background, raised, script, pc, y0, stdout, frames, prev_fill,
                 _image_gb_protection>>
  /\ UNCHANGED <<canvasVars, waitVars>>
  /\ UNCHANGED <<delivered, invoked, mouse_returned, key_returned, last_drain, registered>>

MoveInit ==
  /\ CanvasInit
  /\ script = "moves"
  /\ items = double_scene
  /\ background = ""
  /\ raised = Raised("none", 0, "", None)
  /\ pc = "none"
  /\ y0 = 0
  /\ stdout = << >>
  /\ frames = 0
  /\ prev_fill = None
  /\ _image_gb_protection = NoImages

MoveNext == \E call \in MoveCalls : MoveCall(call)

MoveSpec == MoveInit /\ [][MoveNext]_vars

---------------------------------------------------------------------------
(* C13 *)

\* the offsets twice a move is tried with: those of the scripts, and whole
\* pixels either way
DoubleOffsetsTried ==
  {OffsetOf(call) : call \in MoveCalls} \cup { << Whole(0 - 3), Whole(7) >> }

\* a + a, which is exact in doubles (Python's 2 * a)
Doubled(a) == Plus(a, a)

\* the item moved by d twice, and moved by twice d once
MovedTwice(h, d) ==
  move_double(move_double(items, WithId(h), d[1], d[2]), WithId(h), d[1], d[2])[h].coords

MovedOnce(h, d) ==
  move_double(items, WithId(h), Doubled(d[1]), Doubled(d[2]))[h].coords

\* 2^-40 pixel
Tolerance == Double(0, 0, 2^16)

\* a and b differ by no more than the tolerance
Close(a, b) == ~Less(Tolerance, Minus(a, b)) /\ ~Less(Tolerance, Minus(b, a))

\* the step is this call of move
MoveStep(call) == moves'[call] = moves[call] + 1

\* the n-frame law of the sunset loop: after n calls of move(cir, 0, 1) the
\* sun of sunset.py is n pixels below where it was created
SunsetFrames ==
  items[First(WithTag(items, "cir"))].coords =
    << Whole((CANVAS_WIDTH - SUN_SIZE) \div 2), Whole(moves["cir"]),
       Whole((CANVAS_WIDTH + SUN_SIZE) \div 2), Whole(moves["cir"] + SUN_SIZE) >>

\* C13 as stated: for every item and every offset, the item moved twice by
\* (dx, dy) has the coordinates of the item moved once by (2dx, 2dy); and
\* after n frames of the sunset loop the sun's top edge is n times 1.
C13_TwiceIsOnceDoubled ==
  /\ \A h \in 1..Len(items) : \A d \in DoubleOffsetsTried :
       MovedTwice(h, d) = MovedOnce(h, d)
  /\ SunsetFrames

\* C13 amended: the item moved twice by (dx, dy) has the coordinates of the
\* item moved once by (2dx, 2dy) when its coordinates and the offset are
\* whole pixels, as in sunset.py, where the sun's top edge after n frames
\* is n; for other offsets (0.8 and 0.1 in extension.py) each move rounds
\* its sums to doubles and the two results agree to within 2^-40 pixel only.
C13_TwiceIsOnceDoubledWhole ==
  /\ \A h \in 1..Len(items) : \A d \in DoubleOffsetsTried :
       /\ \A i \in 1..Len(items[h].coords) : Close(MovedTwice(h, d)[i], MovedOnce(h, d)[i])
       /\ (IsWhole(d[1]) /\ IsWhole(d[2]) /\ \A i \in 1..Len(items[h].coords) :
             IsWhole(items[h].coords[i]))
            => MovedTwice(h, d) = MovedOnce(h, d)
  /\ SunsetFrames

\* the sun of sunset.py has been moved three times and is 3 pixels down;
\* the cloud has been moved twice by 0.1 and its left edge, created at 90,
\* is at 90.19999999999999, where one move by 0.2 puts it at 90.2
C13_Witness ==
  /\ moves["cir"] = 3
  /\ items[6].coords[2] = Whole(3)
  /\ moves["cloud1"] = 2
  /\ items[3].coords[1] = Double(90, 53687091, 53686272)
  /\ Plus(Whole(90), Doubled(Literal01)) = Double(90, 53687091, 53687296)

---------------------------------------------------------------------------
(* move_to and moveto, called on an item of each type, with the            *)
(* coordinates in doubles.                                                 *)

\* get_left_x.  For a text item the code calls self.get_width, which
\* neither graphics.py nor tkinter.Canvas defines.
get_left_x(its, objs) ==
  IF type(its, objs) # "text"
    THEN coords(its, objs)[1]
    ELSE "AttributeError"

\* get_left_x and get_top_y raise AttributeError: the item is text
RaisesAttributeError(its, objs) == type(its, objs) = "text"

\* move_to: the items after it and the error it raises
move_to(its, objs, new_x, new_y) ==
  IF RaisesAttributeError(its, objs)
    THEN Outcome(its, "AttributeError")
    ELSE LET old_x == get_left_x(its, objs)
             old_y == get_top_y(its, objs)
         IN  Outcome(move_double(its, objs, Minus(new_x, old_x), Minus(new_y, old_y)), None)

\* the arguments of moveto: a Python int, a Python str, or a float (a
\* double as it is)
PyInt(n) == [int |-> n]

PyStr(str) == [str |-> str]

\* float(x) raises ValueError: x is the empty string of moveto's defaults
\* (no other string is passed)
RaisesValueError(x) == "str" \in DOMAIN x

\* Python's float(x) of an int or a float
float(x) == IF "int" \in DOMAIN x THEN Whole(x.int) ELSE x

\* moveto
moveto(its, objs, x, y) ==
  IF RaisesValueError(x) \/ RaisesValueError(y)
    THEN Outcome(its, "ValueError")
    ELSE move_to(its, objs, float(x), float(y))

\* one item of each type
double_shapes ==
  << create_oval(Whole(10), Whole(10), Whole(20), Whole(20), "", "black", {}),
     create_rectangle(Whole(30), Whole(10), Whole(40), Whole(20), "", "black", {}),
     create_text(Whole(50), Whole(10), "black"),
     create_image_with_size(Whole(70), Whole(10), 20, 20, "sun.png") >>

\* the corners move_to is called with: (0, 25), (25, 0) and (12.5, 12.5)
TargetsTried ==
  { << Whole(0), Whole(25) >>, << Whole(25), Whole(0) >>,
    << Double(12, 2^27, 0), Double(12, 2^27, 0) >> }

\* the arguments moveto is called with: ints, floats, and the empty strings
\* of its defaults
ArgumentsTried ==
  { << PyInt(0), PyInt(25) >>, << Double(12, 2^27, 0), PyInt(0) >>,
    << PyStr(""), PyStr("") >> }

\* the record of a call of move_to or moveto: x and y are the coordinates
\* asked for, as doubles (as passed, when float() raises)
Called(call, obj, x, y, error) ==
  [call |-> call, obj |-> obj, x |-> x, y |-> y, error |-> error]

\* canvas.move_to(obj, new_x, new_y)
MoveTo(obj, new_x, new_y) ==
  /\ LET r == move_to(items, WithId(obj), new_x, new_y)
     IN  /\ items' = r.items
         /\ raised' = Called("move_to", obj, new_x, new_y, r.error)
  /\ UNCHANGED <<background, script, pc, y0, stdout, frames, prev_fill,
                 _image_gb_protection>>
  /\ UNCHANGED <<canvasVars, waitVars, historyVars>>

\* canvas.moveto(obj, x, y)
Moveto(obj, x, y) ==
  /\ LET r == moveto(items, WithId(obj), x, y)
     IN  /\ items' = r.items
         /\ raised' = IF r.error = "ValueError"
                         THEN Called("moveto", obj, x, y, r.error)
                         ELSE Called("moveto", obj, float(x), float(y), r.error)
  /\ UNCHANGED <<background, script, pc, y0, stdout, frames, prev_fill,
                 _image_gb_protection>>
  /\ UNCHANGED <<canvasVars, waitVars, historyVars>>

MoveToInit ==
  /\ CanvasInit
  /\ script = "shapes"
  /\ items = double_shapes
  /\ background = ""
  /\ raised = Called("none", 0, Whole(0), Whole(0), None)
  /\ pc = "none"
  /\ y0 = 0
  /\ stdout = << >>
  /\ frames = 0
  /\ prev_fill = None
  /\ _image_gb_protection = NoImages

MoveToNext ==
  \/ \E obj \in 1..Len(double_shapes) : \E to \in TargetsTried : MoveTo(obj, to[1], to[2])
  \/ \E obj \in 1..Len(double_shapes) : \E to \in ArgumentsTried : Moveto(obj, to[1], to[2])

MoveToSpec == MoveToInit /\ [][MoveToNext]_vars

---------------------------------------------------------------------------
(* C14 *)

\* the call of the step has put the top left corner of its item at the
\* coordinates it was called with
CornerAtTarget ==
  /\ raised'.error = None
  /\ get_left_x(items', WithId(raised'.obj)) = raised'.x
  /\ get_top_y(items', WithId(raised'.obj)) = raised'.y

\* the call of the step was the relative move by the distance from the
\* corner to the target: of its item and of no other
RelativeMove ==
  LET h == raised'.obj IN
  /\ \A k \in 1..Len(items) : k # h => items'[k] = items[k]
  /\ items'[h] = [items[h] EXCEPT !.coords =
       [i \in 1..Len(items[h].coords) |->
          Plus(items[h].coords[i],
               IF i % 2 = 1 THEN Minus(raised'.x, items[h].coords[1])
                            ELSE Minus(raised'.y, items[h].coords[2]))]]

\* C14 as stated: a call of move_to or moveto with two coordinates, on an
\* item of any type, puts the item's top left corner (get_left_x,
\* get_top_y) at these coordinates, and the same call made again changes
\* nothing.
C14_MoveToReachesTarget ==
  [][ raised'.error # "ValueError" =>
        /\ CornerAtTarget
        /\ raised' = raised => items' = items ]_vars

\* C14 on the items that are not text: the call is the relative move, it
\* puts the corner at the target and the same call again changes nothing.
C14_ExceptText ==
  [][ (raised'.error # "ValueError" /\ items[raised'.obj].type # "text") =>
        /\ CornerAtTarget
        /\ RelativeMove
        /\ raised' = raised => items' = items ]_vars

\* move_to has raised AttributeError on the text item, which is where it
\* was created
C14_TextRaises ==
  /\ raised.call = "move_to"
  /\ items[raised.obj].type = "text"
  /\ raised.error = "AttributeError"
  /\ items[raised.obj] = double_shapes[raised.obj]

---------------------------------------------------------------------------
(* Images created and items deleted.                                       *)

\* calls of a create method in one run
MaxItems == 3

\* what the handle of a deleted item denotes: handles are not used again
Deleted == [type |-> "deleted"]

\* self._image_gb_protection[img_obj] = image
protect(protection, img_obj, image) ==
  [h \in DOMAIN protection \cup {img_obj} |->
     IF h = img_obj THEN image ELSE protection[h]]

\* tkinter's delete(tagOrId), which Canvas does not override
delete(its, objs) ==
  [h \in 1..Len(its) |-> IF h \in objs THEN Deleted ELSE its[h]]

\* the image files and the sizes the images are created with
ImageFiles == {"sun.png", "moon.png"}

ImageSizes == {20, 40}

\* canvas.create_image_with_size(x, y, width, height, file_path)
CreateImage(x, y, width, height, file_path) ==
  /\ Len(items) < MaxItems
  /\ LET item == create_image_with_size(x, y, width, height, file_path)
         img_obj == Len(items) + 1
     IN  /\ items' = Append(items, item)
         /\ _image_gb_protection' = protect(_image_gb_protection, img_obj, item.image)
  /\ UNCHANGED <<background, raised, script, pc, y0, stdout, frames, prev_fill>>
  /\ UNCHANGED <<canvasVars, waitVars, historyVars>>

\* canvas.create_oval(x0, y0, x1, y1)
CreateOval(x0, y0_, x1, y1) ==
  /\ Len(items) < MaxItems
  /\ items' = Append(items, create_oval(x0, y0_, x1, y1, "", "black", {}))
  /\ UNCHANGED <<background, raised, script, pc, y0, stdout, frames, prev_fill,
                 _image_gb_protection>>
  /\ UNCHANGED <<canvasVars, waitVars, historyVars>>

\* canvas.delete(obj)
Delete(obj) ==
  /\ items' = delete(items, WithId(obj))
  /\ UNCHANGED <<background, raised, script, pc, y0, stdout, frames, prev_fill,
                 _image_gb_protection>>
  /\ UNCHANGED <<canvasVars, waitVars, historyVars>>

ImageInit ==
  /\ CanvasInit
  /\ script = "images"
  /\ items = << >>
  /\ background = ""
  /\ raised = Raised("none", 0, "", None)
  /\ pc = "none"
  /\ y0 = 0
  /\ stdout = << >>
  /\ frames = 0
  /\ prev_fill = None
  /\ _image_gb_protection = NoImages

ImageNext ==
  \/ \E file_path \in ImageFiles : \E size \in ImageSizes :
       CreateImage(Px(10), Px(10), size, size, file_path)
  \/ CreateOval(Px(10), Px(10), Px(20), Px(20))
  \/ \E obj \in 1..Len(items) : Delete(obj)

ImageSpec == ImageInit /\ [][ImageNext]_vars

---------------------------------------------------------------------------
(* C15 *)

\* the handles of the images created and not deleted
LiveImages == {h \in 1..Len(items) : items[h].type = "image"}

\* the part of C15 about the images not deleted: each has its entry in
\* _image_gb_protection, which holds the PhotoImage the item displays
C15_HeldWhileAlive ==
  \A h \in LiveImages :
    /\ h \in DOMAIN _image_gb_protection
    /\ _image_gb_protection[h] = items[h].image

\* C15 as stated: _image_gb_protection holds, for each image handle that
\* create_image_with_size returned and that was not deleted, the image it
\* displays, and it holds no entry for a handle that was deleted.
C15_HeldUntilDeleted ==
  /\ C15_HeldWhileAlive
  /\ DOMAIN _image_gb_protection = LiveImages

\* an image was created and deleted, and its entry is still there
C15_StillHeld ==
  /\ items = << Deleted >>
  /\ 1 \in DOMAIN _image_gb_protection

(***************************************************************************)
(* The end of the scripts (FairSunSpec).                                   *)
(***************************************************************************)

\* the script is inside the animation loop, its test included
InLoop == pc \in {"while", "move", "scenery", "update", "recolor"}

\* the completion message is on the standard output
Printed == stdout # << >>

\* the items the night of extension.py adds after the sun: the caption and
\* the two disks of the moon
NightItems ==
  << create_text(Px(200), Px(130), "gold"),
     create_oval(Px(25), Px(25), Px(75), Px(75), "goldenrod1", "goldenrod1", {}),
     create_oval(Px(40), Px(15), Px(110), Px(80), "midnight blue", "midnight blue", {}) >>

\* C16: a script runs the animation to completion, then prints the
\* completion message exactly once, then blocks in mainloop.  The message
\* is printed by one step, taken after the loop with the sun's top edge at
\* or beyond CANVAS_HEIGHT, and stays the only line; the script reaches
\* mainloop with the message printed; once it is printed the sun neither
\* moves nor changes colour; and in extension.py the background is the day's
\* and no item follows the sun as long as the loop runs, while the night
\* background, the caption and both moon disks are there when the message
\* is printed.
C16_CompleteThenPrintThenBlock ==
  /\ [][(stdout' # stdout) =>
          /\ ~InLoop
          /\ stdout = << >>
          /\ stdout' = << "animation complete" >>
          /\ sun_top >= Px(CANVAS_HEIGHT)
          /\ pc' = "mainloop"]_vars
  /\ [](Printed => sun_top >= Px(CANVAS_HEIGHT))
  /\ [](InLoop => ~Printed)
  /\ [](pc \in {"mainloop", "in mainloop"} => stdout = << "animation complete" >>)
  /\ <>[](pc = "in mainloop" /\ stdout = << "animation complete" >>)
  /\ [][Printed => items'[sun] = items[sun]]_vars
  /\ []((script = "extension" /\ InLoop) =>
          (background = "deep sky blue" /\ Len(items) = sun))
  /\ []((script = "extension" /\ (Printed \/ pc = "print")) =>
          /\ background = "midnight blue"
          /\ SubSeq(items, sun + 1, Len(items)) = NightItems)
  /\ [][(script = "extension" /\ Len(items') # Len(items)) => pc = "night"]_vars

\* extension.py blocks in mainloop, the message printed once, after the 375
\* frames that bring the sun's top edge to 300 and with the night drawn
C16_Witness ==
  /\ script = "extension"
  /\ pc = "in mainloop"
  /\ stdout = << "animation complete" >>
  /\ frames = 375
  /\ sun_top = Px(CANVAS_HEIGHT)
  /\ background = "midnight blue"
  /\ Len(items) = sun + 3

(***************************************************************************)
(* The order of a frame (SunSpec).                                         *)
(***************************************************************************)

\* the colour get_sun_color of the running script gives the sun where it is
ColorAtTop ==
  IF script = "sunset" THEN get_sun_color(sun_top)
                       ELSE extension_get_sun_color(sun_top)

\* the sun's position after n frames
TopAfter(n) == n * sun_dy

\* C17: a frame runs displace, redraw and sleep, recolour, in this order,
\* and the recolouring uses the position the frame's displacement has
\* produced.  The displacement moves the sun by the frame's offset and
\* leaves its colours; the redraw changes no item and is followed by the
\* recolouring; the recolouring reads the top edge as the displacement left
\* it, leaves the sun where it is and returns to the loop test.  So at every
\* loop test, the one that leaves the loop included, the sun's fill is
\* get_sun_color of its current top edge, and in extension.py its outline is
\* its fill.
C17_FrameOrder ==
  /\ [][pc = "move" =>
          /\ pc' = IF script = "sunset" THEN "update" ELSE "scenery"
          /\ sun_top' = sun_top + sun_dy
          /\ sun_fill' = sun_fill
          /\ items'[sun].outline = items[sun].outline]_vars
  /\ [][pc = "scenery" => (pc' = "update" /\ items'[sun] = items[sun])]_vars
  /\ [][pc = "update" => (pc' = "recolor" /\ items' = items)]_vars
  /\ [][pc = "recolor" =>
          /\ pc' = "while"
          /\ sun_top = TopAfter(frames)
          /\ y0' = sun_top
          /\ sun_top' = sun_top
          /\ sun_fill' = ColorAtTop]_vars
  /\ [][(pc = "while" /\ pc' = "move") => items' = items]_vars
  /\ [](pc \in {"while", "print", "night"} =>
          /\ sun_top = TopAfter(frames)
          /\ sun_fill = ColorAtTop
          /\ (script = "extension" => items[sun].outline = sun_fill))

\* extension.py is at the loop test after the frame that takes the sun's
\* top edge past 65 pixels (to 65.6): the sun, yellow during the frame, is
\* orange, fill and outline
C17_Witness ==
  /\ script = "extension"
  /\ pc = "while"
  /\ frames = 82
  /\ sun_top = 656
  /\ prev_fill = "yellow"
  /\ sun_fill = "orange"
  /\ items[sun].outline = "orange"

(***************************************************************************)
(* The colour states of the sun (FairSunSpec).                             *)
(***************************************************************************)

\* the top edges at which get_sun_color changes its answer: 65 and 165
\* pixels
OrangeAbove == ORANGE_Y - Px(SUN_SIZE) \div 2
RedAbove == RED_Y - Px(SUN_SIZE) \div 2

\* this frame's displacement has taken the top edge past the threshold: it
\* is the first frame whose top edge after the displacement exceeds it
FirstPast(threshold) ==
  sun_top > threshold /\ sun_top - sun_dy <= threshold

\* C18: in a complete run the sun is yellow, then orange, then red, and no
\* colour is skipped.  It is created yellow; its fill changes only in the
\* recolouring of a frame, from yellow to orange in the first frame whose
\* top edge after the displacement exceeds 65 pixels and from orange to red
\* in the first frame whose top edge exceeds 165 pixels; between frames it
\* is yellow up to 65, orange above 65 and up to 165, red above 165; each
\* colour gives way to the next; and the sun is red once the loop is left.
C18_YellowOrangeRed ==
  /\ sun_fill = "yellow"
  /\ [][sun_fill' # sun_fill =>
          /\ pc = "recolor"
          /\ \/ sun_fill = "yellow" /\ sun_fill' = "orange" /\ FirstPast(OrangeAbove)
             \/ sun_fill = "orange" /\ sun_fill' = "red" /\ FirstPast(RedAbove)]_vars
  /\ [](pc = "while" =>
          /\ (sun_fill = "yellow") <=> (sun_top <= OrangeAbove)
          /\ (sun_fill = "orange") <=> (sun_top > OrangeAbove /\ sun_top <= RedAbove)
          /\ (sun_fill = "red") <=> (sun_top > RedAbove))
  /\ (sun_fill = "yellow") ~> (sun_fill = "orange")
  /\ (sun_fill = "orange") ~> (sun_fill = "red")
  /\ [](~InLoop => sun_fill = "red")
  /\ <>[](~InLoop /\ sun_fill = "red")

\* sunset.py has left the loop after its 300 frames, the sun red since the
\* frame before and its top edge at 300
C18_Witness ==
  /\ script = "sunset"
  /\ pc = "print"
  /\ frames = 300
  /\ sun_top = Px(CANVAS_HEIGHT)
  /\ prev_fill = "red"
  /\ sun_fill = "red"

---------------------------------------------------------------------------
(* C19 *)

\* C19 as stated: currently_waiting_for_click is true exactly when some
\* wait_for_click call has started and not yet returned, a call made by a
\* key callback during the polling of another call included.
C19_FlagIffWaiting ==
  currently_waiting_for_click <=> (waitDepth > 0)

\* the half of it the code keeps: the flag is true only while a call is in
\* progress
C19_FlagOnlyWhileWaiting ==
  currently_waiting_for_click => (waitDepth > 0)

\* a call is blocked and the flag is off: a nested call has returned
C19_OuterUnprotected ==
  /\ waitDepth = 1
  /\ ~currently_waiting_for_click

---------------------------------------------------------------------------
(* C20 *)

\* C20: wait_for_click does not suppress key presses.  Whether or not a
\* call is blocked, a key press that arrives is passed to the registered
\* key callback and not queued, or, with none registered, is appended to
\* key_presses, where it stays until the next get_new_key_presses returns
\* it; and it never makes wait_for_click return: the step ends no call and
\* does not set the flag the polling loop waits for.
C20_KeysNotSuppressed ==
  /\ [][EventStep("key") =>
          /\ IF on_key_pressed # None
               THEN /\ ArrivedFate = "callback"
                    /\ invoked' = on_key_pressed
                    /\ key_presses' = key_presses
               ELSE /\ ArrivedFate = "queued"
                    /\ invoked' = None
                    /\ key_presses' = Append(key_presses, NextEvent)
          /\ ~ReturnStep
          /\ Len(wait_stack') >= Len(wait_stack)
          /\ wait_for_click_click_happened' => wait_for_click_click_happened]_vars
  /\ [][key_presses' # key_presses =>
          \/ EventStep("key") /\ key_presses' = Append(key_presses, NextEvent)
          \/ /\ DrainStep("get_new_key_presses")
             /\ key_returned' = key_returned \o key_presses
             /\ key_presses' = << >>]_vars
  /\ [](key_returned \o key_presses = Queued("key"))

\* a wait_for_click call is blocked, no release has come; the press that
\* arrived was dropped, the key press that arrived after it is in the queue
C20_Witness ==
  /\ waitDepth = 1
  /\ currently_waiting_for_click
  /\ ~wait_for_click_click_happened
  /\ on_key_pressed = None
  /\ delivered = << Event("press", "none"), Event("key", "queued") >>
  /\ key_presses = << 2 >>

---------------------------------------------------------------------------
(* C21 *)

\* the events a queue holds or a drain of it has returned are all of this
\* kind
OnlyKind(seq, kind) == \A i \in Range(seq) : delivered[i].kind = kind

\* releases are never queued: a release changes neither queue, the mouse
\* queue and the results of get_new_mouse_clicks hold presses only, and a
\* release that arrives with no release callback registered and no
\* wait_for_click in progress invokes no callback and only sets
\* wait_for_click_click_happened
C21_ReleasesNeverQueued ==
  /\ [](/\ OnlyKind(mouse_presses, "press")
        /\ OnlyKind(mouse_returned, "press")
        /\ OnlyKind(key_presses, "key")
        /\ OnlyKind(key_returned, "key"))
  /\ [][EventStep("release") =>
          /\ mouse_presses' = mouse_presses
          /\ key_presses' = key_presses
          /\ ArrivedFate # "queued"
          /\ wait_for_click_click_happened']_vars
  /\ [][(EventStep("release") /\ on_mouse_released = None /\ waitDepth = 0) =>
          /\ invoked' = None
          /\ ArrivedFate = "none"
          /\ currently_waiting_for_click' = currently_waiting_for_click]_vars

\* C21 as stated: releases are never queued, and mouse_presses holds only
\* presses that arrived while no press callback was registered and no
\* wait_for_click call was in progress.
C21_OnlyUnwaitedPressesQueued ==
  /\ C21_ReleasesNeverQueued
  /\ [][mouse_presses' # mouse_presses =>
          \/ DrainStep("get_new_mouse_clicks") /\ mouse_presses' = << >>
          \/ /\ EventStep("press")
             /\ mouse_presses' = Append(mouse_presses, NextEvent)
             /\ on_mouse_pressed = None
             /\ waitDepth = 0]_vars

\* a press is in the queue that arrived while a wait_for_click call was
\* blocked: the call a key callback made has returned, the outer call has
\* not
C21_QueuedDuringWait ==
  /\ waitDepth = 1
  /\ delivered = << Event("key", "callback"), Event("release", "wait"),
                    Event("press", "queued") >>
  /\ mouse_presses = << 3 >>

(***************************************************************************)
(* What a frame's redraw shows (SunSpec).                                  *)
(***************************************************************************)

\* the colour get_sun_color of the running script gives the top edge the
\* sun had before the displacement of the current frame
ColorBeforeFrame ==
  IF script = "sunset" THEN get_sun_color(sun_top - sun_dy)
                       ELSE extension_get_sun_color(sun_top - sun_dy)

\* the script is at canvas.update() of a frame
AtRedraw == pc = "update"

\* C22: the colour a frame's redraw shows lags the position by one frame.
\* At every redraw inside the loop the sun has been displaced by the frame
\* and its fill is get_sun_color of the top edge before that displacement;
\* the redraw itself changes no item.  So in the frame whose displacement
\* first takes the top edge past 65 pixels the sun is drawn yellow and in
\* the one that first takes it past 165 pixels orange: in sunset.py these
\* are frames 66 and 166, the top edge at 66 and 166.
C22_RedrawLagsByOneFrame ==
  /\ [](AtRedraw =>
          /\ frames >= 1
          /\ sun_top = TopAfter(frames)
          /\ sun_fill = ColorBeforeFrame
          /\ (FirstPast(OrangeAbove) => (sun_fill = "yellow" /\ ColorAtTop = "orange"))
          /\ (FirstPast(RedAbove) => (sun_fill = "orange" /\ ColorAtTop = "red")))
  /\ [][AtRedraw => (items' = items /\ pc' = "recolor")]_vars
  /\ []((AtRedraw /\ script = "sunset") =>
          /\ FirstPast(OrangeAbove) <=> (frames = 66 /\ sun_top = Px(66))
          /\ FirstPast(RedAbove) <=> (frames = 166 /\ sun_top = Px(166)))

\* sunset.py redraws frame 66: the sun's top edge is at 66, past the 65 of
\* orange, and the sun is still yellow
C22_Witness ==
  /\ script = "sunset"
  /\ AtRedraw
  /\ frames = 66
  /\ sun_top = Px(66)
  /\ sun_fill = "yellow"
  /\ get_sun_color(sun_top) = "orange"

===========================================================================
